---- MODULE Spec2Model ----
(***************************************************************************)
(* State-machine model of mosviz.viewers.mos_viewer.MOSVizViewer and the   *)
(* toolbar it drives (mosviz.widgets.toolbars.MOSViewerToolbar).           *)
(*                                                                         *)
(* The viewer is single threaded: every action below is one event handled  *)
(* to completion, including the currentIndexChanged slots that the combo   *)
(* box runs synchronously while the handler is still executing.            *)
(***************************************************************************)
EXTENDS Integers, Sequences, FiniteSets, TLC

VARIABLES
    catalog,          \* self.catalog: <<>> (None) or <<table>>
    items,            \* toolbar.source_select: the combo box's item texts
    index,            \* toolbar.source_select.currentIndex(), -1 when none
    current_row,      \* self.current_row: <<>> (None) or <<row>>
    prevDisabled,     \* not toolbar.cycle_previous_action.isEnabled()
    nextDisabled,     \* not toolbar.cycle_next_action.isEnabled()
    loaded,           \* self._loaded_data: product kind -> object identity
    objects,          \* values held by the objects the loaders created, by identity
    dataCollection,   \* session.data_collection: sequence of object identities
    rendered,         \* what the plot and metadata widgets show: <<>> or <<r>>
    resolved,         \* the loaders last returned by _get_loaders: <<>> or <<f>>
    registry,         \* glue.config.data_factory.members
    broken,           \* the files no loader can read
    dead,             \* the process was ended by an exception raised in a slot
    lastEvent         \* history: the event handled last, the load_selection and
                      \* loader calls it made, whether an exception left the
                      \* handler (raised) or one of the slots it ran (slotRaised),
                      \* and whether it replaced the catalog by a shorter one (shrunk)

vars == <<catalog, items, index, current_row, prevDisabled, nextDisabled,
          loaded, objects, dataCollection, rendered, resolved, registry,
          broken, dead, lastEvent>>

(***************************************************************************)
(* Bounds of the model.                                                    *)
(***************************************************************************)
MaxRows == 3        \* rows of the larger host table
MaxObjects == 15    \* data objects the viewer may register before the model stops
MaxExtra == 2       \* loaders registered besides the built-in ones

None == <<>>
Some(x) == <<x>>

Kinds == <<"spec1d", "spec2d", "image">>
KindSet == {"spec1d", "spec2d", "image"}

(***************************************************************************)
(* Host data: two tables the host application holds in its collection,     *)
(* A with MaxRows rows and B with a single row.                            *)
(***************************************************************************)
Datasets == {"A", "B"}

NumRows(d) == IF d = "A" THEN MaxRows ELSE 1

ProductColumns == {"spectrum1d", "spectrum2d", "cutout"}

ColumnOf(kind) ==
    CASE kind = "spec1d" -> "spectrum1d"
      [] kind = "spec2d" -> "spectrum2d"
      [] kind = "image" -> "cutout"

EmptyMap == [k \in {} |-> ""]

\* catalog-level metadata: table A names no loaders, table B overrides two kinds
MetaOf(d) ==
    IF d = "A"
    THEN [hasLoaders |-> FALSE, loaders |-> EmptyMap]
    ELSE [hasLoaders |-> TRUE,
          loaders |-> [k \in {"spec1d", "image"} |->
                          IF k = "spec1d" THEN "Custom Reader" ELSE "Unregistered Reader"]]

ComponentNames == <<"id", "spectrum1d", "spectrum2d", "cutout", "slit_width">>

\* a component of the host table: categorical ones carry labels, others data
HostComponent(d, att) ==
    [categorical |-> att # "slit_width",
     values |-> [k \in 1..NumRows(d) |->
                    IF att = "slit_width" THEN <<k>> ELSE <<att, d, k>>],
     load_path |-> <<"dir_" \o d, "catalog.txt">>]

HostData(d) == [label |-> d, meta |-> MetaOf(d), components |-> ComponentNames]

Masks(d) == [1..NumRows(d) -> BOOLEAN]

\* what add_data / add_subset and the hub messages may hand to the viewer
Inputs ==
    [kind : {"data"}, data : Datasets, mask : {<<>>}, compatible : {TRUE}]
    \cup UNION {[kind : {"subset"}, data : {d}, mask : Masks(d), compatible : {TRUE}]
                : d \in Datasets}
    \cup [kind : {"subset"}, data : Datasets, mask : {<<>>}, compatible : {FALSE}]

(***************************************************************************)
(* numpy indexing, x[mask], as _unpack_selection uses it.                  *)
(***************************************************************************)
RECURSIVE Compress(_, _)
Compress(values, mask) ==
    IF values = <<>> THEN <<>>
    ELSE (IF Head(mask) THEN <<Head(values)>> ELSE <<>>)
         \o Compress(Tail(values), Tail(mask))

\* x[None] adds an axis (one row holding x); x[boolean mask] keeps the rows selected
NpIndex(values, mask) ==
    IF mask = None
    THEN [ndim |-> 2, val |-> <<values>>]
    ELSE [ndim |-> 1, val |-> Compress(values, mask)]

NpAny(mask) == \E i \in DOMAIN mask : mask[i]

\* '/'.join(path.split('/')[:-1])
DirName(path) == SubSeq(path, 1, Len(path) - 1)

\* os.path.join(path, x)
PathJoin(path, x) == Append(path, x)

(***************************************************************************)
(* astropy Table: columns in insertion order.                              *)
(***************************************************************************)
EmptyTable(meta) == [meta |-> meta, colnames |-> <<>>, cols |-> EmptyMap]

SetColumn(t, name, values) ==
    [t EXCEPT !.colnames = IF name \in DOMAIN t.cols THEN @ ELSE Append(@, name),
              !.cols = [c \in DOMAIN t.cols \cup {name} |->
                           IF c = name THEN values ELSE t.cols[c]]]

TableLen(t) == IF t.colnames = <<>> THEN 0 ELSE Len(t.cols[t.colnames[1]])

\* Table.__getitem__(int): Python indexing, negative indices count from the end
RowInRange(t, ind) == -TableLen(t) <= ind /\ ind < TableLen(t)

TableRow(t, ind) ==
    LET k == IF ind < 0 THEN TableLen(t) + ind + 1 ELSE ind + 1
    IN  [c \in DOMAIN t.cols |-> t.cols[c][k]]

(***************************************************************************)
(* The loader registry and the built-in readers.                           *)
(***************************************************************************)
BuiltinReader(kind) ==
    CASE kind = "spec1d" -> "nirspec_spectrum1d_reader"
      [] kind = "spec2d" -> "nirspec_spectrum2d_reader"
      [] kind = "image" -> "acs_cutout_image_reader"

DefaultLabel(kind) ==
    CASE kind = "spec1d" -> "NIRSpec 1D Spectrum"
      [] kind = "spec2d" -> "NIRSpec 2D Spectrum"
      [] kind = "image" -> "Cutout Image"

\* the registrations made when mosviz.loaders.mos_loaders is imported
BuiltinRegistry ==
    [i \in 1..3 |-> [label |-> DefaultLabel(Kinds[i]), function |-> BuiltinReader(Kinds[i])]]

ExtraEntries ==
    [label : {"Custom Reader", "Other Reader"}, function : {"custom_reader", "other_reader"}]

SeqsUpTo(S, n) == UNION {[1..m -> S] : m \in 0..n}

Registries == {BuiltinRegistry \o extra : extra \in SeqsUpTo(ExtraEntries, MaxExtra)}

Metas ==
    {[hasLoaders |-> FALSE, loaders |-> EmptyMap]}
    \cup {[hasLoaders |-> TRUE, loaders |-> f] :
            f \in UNION {[S -> {"Custom Reader", "Unregistered Reader"}] : S \in SUBSET KindSet}}

\* next((x.function for x in members if x.label == label), ...): first match or nothing
FirstLabelled(members, label) ==
    LET hits == {i \in DOMAIN members : members[i].label = label}
    IN  IF hits = {} THEN None
        ELSE Some(members[CHOOSE i \in hits : \A j \in hits : i <= j].function)

\* variant of the branch that returns the named loader only for the first kind
GetLoaderFirstKindOnly(meta, members, kind) ==
    LET loaders == IF meta.hasLoaders THEN meta.loaders ELSE EmptyMap
    IN  IF kind \in DOMAIN loaders
        THEN LET default == FirstLabelled(members, DefaultLabel(kind))
                 named == FirstLabelled(members, meta.loaders[kind])
             IN  IF default = None THEN [exc |-> "StopIteration", function |-> ""]
                 ELSE IF named = None \/ kind # "spec1d"
                 THEN [exc |-> "", function |-> default[1]]
                 ELSE [exc |-> "", function |-> named[1]]
        ELSE [exc |-> "", function |-> BuiltinReader(kind)]

\* one kind's branch of _get_loaders; the default of next() is evaluated first
GetLoader(meta, members, kind) ==
    LET loaders == IF meta.hasLoaders THEN meta.loaders ELSE EmptyMap
    IN  IF kind \in DOMAIN loaders
        THEN LET default == FirstLabelled(members, DefaultLabel(kind))
                 named == FirstLabelled(members, meta.loaders[kind])
             IN  IF default = None THEN [exc |-> "StopIteration", function |-> ""]
                 ELSE IF named = None THEN [exc |-> "", function |-> default[1]]
                 ELSE [exc |-> "", function |-> named[1]]
        ELSE [exc |-> "", function |-> BuiltinReader(kind)]

GetLoaders(meta, members) ==
    LET r == [k \in KindSet |-> GetLoader(meta, members, k)]
    IN  IF \E k \in KindSet : r[k].exc # ""
        THEN [exc |-> "StopIteration", loaders |-> [k \in KindSet |-> ""]]
        ELSE [exc |-> "", loaders |-> [k \in KindSet |-> r[k].function]]

(***************************************************************************)
(* The viewer's fields as one record, so that a handler's statements can   *)
(* be composed in program order.  exc is the exception propagating out of  *)
(* the statement executed last ("" when none); policy is what the Qt       *)
(* binding does with an exception that leaves a slot: "log" prints it and  *)
(* goes on, "abort" ends the process.                                      *)
(***************************************************************************)
State(policy) ==
    [catalog |-> catalog, items |-> items, index |-> index,
     current_row |-> current_row, prevDisabled |-> prevDisabled,
     nextDisabled |-> nextDisabled, loaded |-> loaded, objects |-> objects,
     dataCollection |-> dataCollection, rendered |-> rendered,
     resolved |-> resolved, registry |-> registry, broken |-> broken,
     dead |-> dead, exc |-> "", policy |-> policy, slotRaised |-> FALSE,
     loads |-> <<>>, loaderCalls |-> <<>>]

Halted(s) == s.exc # "" \/ s.dead

\* statement sequencing: v is evaluated once and handed to the statements that follow
Bind(v, F(_)) == CHOOSE r \in {F(x) : x \in {v}} : TRUE

Raise(s, e) == [s EXCEPT !.exc = e]

\* a loader applied to a path: the data object's contents, or a failure
LoaderFails(s, path) == path \in s.broken

LoaderValue(function, path) == [function |-> function, path |-> path]

\* variant of _update_data_components that registers every loaded object
UpdateDataComponentsAlwaysRegisters(s, data, key) ==
    IF Halted(s) THEN s
    ELSE LET obj == Len(s.objects) + 1
         IN  [s EXCEPT !.dataCollection = Append(@, obj),
                       !.objects = Append(@, data),
                       !.loaded = [k \in DOMAIN s.loaded \cup {key} |->
                                      IF k = key THEN obj ELSE s.loaded[k]]]

\* _update_data_components(data, key)
UpdateDataComponents(s, data, key) ==
    IF Halted(s) THEN s
    ELSE IF key \notin DOMAIN s.loaded
    THEN LET obj == Len(s.objects) + 1
         IN  [s EXCEPT !.dataCollection = Append(@, obj),
                       !.objects = Append(@, data),
                       !.loaded = [k \in DOMAIN s.loaded \cup {key} |->
                                      IF k = key THEN obj ELSE s.loaded[k]]]
    ELSE [s EXCEPT !.objects[s.loaded[key]] = data]

\* render_data(row, spec1d_data, spec2d_data, image_data)
RenderData(s, row, spec1d_data, spec2d_data, image_data) ==
    IF Halted(s) THEN s
    ELSE [s EXCEPT !.rendered = Some([row |-> row, spec1d |-> spec1d_data,
                                      spec2d |-> spec2d_data, image |-> image_data])]

\* the three loader calls of load_selection, in order, stopping at the first failure
CallLoaders(s, row, fns) ==
    LET paths == [i \in 1..3 |-> row[ColumnOf(Kinds[i])]]
        bad == {i \in 1..3 : LoaderFails(s, paths[i])}
        last == IF bad = {} THEN 3 ELSE CHOOSE i \in bad : \A j \in bad : i <= j
        calls == [i \in 1..last |-> <<fns[Kinds[i]], paths[i]>>]
    IN  [s EXCEPT !.loaderCalls = @ \o calls,
                  !.exc = IF bad = {} THEN "" ELSE "LoaderError"]

\* variant of load_selection that stores each product as soon as it is loaded
LoadSelectionInterleaved(s, row) ==
    IF Halted(s) THEN s
    ELSE
    Bind(GetLoaders(s.catalog[1].meta, s.registry), LAMBDA gl :
      LET data(kind) == LoaderValue(gl.loaders[kind], row[ColumnOf(kind)])
          Step(a, kind) ==
              IF Halted(a) THEN a
              ELSE IF LoaderFails(a, row[ColumnOf(kind)])
              THEN [a EXCEPT !.exc = "LoaderError",
                             !.loaderCalls = Append(@, <<gl.loaders[kind], row[ColumnOf(kind)]>>)]
              ELSE UpdateDataComponents(
                       [a EXCEPT !.loaderCalls =
                                    Append(@, <<gl.loaders[kind], row[ColumnOf(kind)]>>)],
                       data(kind), kind)
      IN
      Bind([s EXCEPT !.current_row = Some(row),
                     !.exc = gl.exc,
                     !.resolved = IF gl.exc = "" THEN Some(gl.loaders) ELSE @], LAMBDA s1 :
      Bind(Step(s1, "spec1d"), LAMBDA s2 :
      Bind(Step(s2, "spec2d"), LAMBDA s3 :
      Bind(Step(s3, "image"), LAMBDA s4 :
      Bind(RenderData(s4, row, data("spec1d"), data("spec2d"), data("image")), LAMBDA s6 :
      [s6 EXCEPT !.loads = Append(@, <<row["id"], s6.exc = "">>)]))))))

\* load_selection(row)
LoadSelection(s, row) ==
    IF Halted(s) THEN s
    ELSE
    Bind(GetLoaders(s.catalog[1].meta, s.registry), LAMBDA gl :
      LET spec1d_data == LoaderValue(gl.loaders["spec1d"], row["spectrum1d"])
          spec2d_data == LoaderValue(gl.loaders["spec2d"], row["spectrum2d"])
          image_data == LoaderValue(gl.loaders["image"], row["cutout"])
      IN
      Bind([s EXCEPT !.current_row = Some(row),
                     !.exc = gl.exc,
                     !.resolved = IF gl.exc = "" THEN Some(gl.loaders) ELSE @], LAMBDA s1 :
      Bind(IF Halted(s1) THEN s1 ELSE CallLoaders(s1, row, gl.loaders), LAMBDA s2 :
      Bind(UpdateDataComponents(s2, spec1d_data, "spec1d"), LAMBDA s3 :
      Bind(UpdateDataComponents(s3, spec2d_data, "spec2d"), LAMBDA s4 :
      Bind(UpdateDataComponents(s4, image_data, "image"), LAMBDA s5 :
      Bind(RenderData(s5, row, spec1d_data, spec2d_data, image_data), LAMBDA s6 :
      [s6 EXCEPT !.loads = Append(@, <<row["id"], s6.exc = "">>)])))))))

\* self.load_selection(self.catalog[ind]): the subscript is evaluated first
LoadCatalogRow(s, ind) ==
    IF Halted(s) THEN s
    ELSE IF s.catalog = None THEN Raise(s, "TypeError")
    ELSE IF ~RowInRange(s.catalog[1], ind) THEN Raise(s, "IndexError")
    ELSE LoadSelection(s, TableRow(s.catalog[1], ind))

\* a slot has returned: an exception that left it is logged or ends the process
EndSlot(s) ==
    IF s.exc = "" THEN s
    ELSE IF s.policy = "abort"
    THEN [s EXCEPT !.exc = "", !.slotRaised = TRUE, !.dead = TRUE]
    ELSE [s EXCEPT !.exc = "", !.slotRaised = TRUE]

RECURSIVE SetNavigation(_, _), SetCurrentIndex(_, _), EmitCurrentIndexChanged(_, _)

\* source_select.currentIndexChanged[int]: the two slots of setup_connections
EmitCurrentIndexChanged(s, ind) ==
    IF Halted(s) THEN s
    ELSE Bind(LoadCatalogRow(s, ind), LAMBDA a :
         Bind(EndSlot(a), LAMBDA s1 :
         IF Halted(s1) THEN s1
         ELSE Bind(SetNavigation(s1, ind), LAMBDA b : EndSlot(b))))

\* QComboBox.setCurrentIndex: signals only when the index changes
SetCurrentIndex(s, ind) ==
    IF Halted(s) \/ ind = s.index THEN s
    ELSE EmitCurrentIndexChanged([s EXCEPT !.index = ind], ind)

\* variant of _set_navigation whose range test leaves out index 0
SetNavigationSkipsFirst(s, ind) ==
    IF Halted(s) THEN s
    ELSE
    Bind(IF 0 < ind /\ ind < Len(s.items)
         THEN Bind(SetCurrentIndex(s, ind), LAMBDA a : LoadCatalogRow(a, ind))
         ELSE s, LAMBDA s1 :
    IF Halted(s1) THEN s1
    ELSE [s1 EXCEPT !.prevDisabled = (ind <= 0),
                    !.nextDisabled = (ind >= Len(s1.items) - 1)])

\* variant of _set_navigation whose range test admits the index one past the end
SetNavigationInclusive(s, ind) ==
    IF Halted(s) THEN s
    ELSE
    Bind(IF 0 <= ind /\ ind <= Len(s.items)
         THEN Bind(SetCurrentIndex(s, ind), LAMBDA a : LoadCatalogRow(a, ind))
         ELSE s, LAMBDA s1 :
    IF Halted(s1) THEN s1
    ELSE [s1 EXCEPT !.prevDisabled = (ind <= 0),
                    !.nextDisabled = (ind >= Len(s1.items) - 1)])

\* variant of _set_navigation that clamps the index to the nearest row
SetNavigationClamped(s, ind) ==
    IF Halted(s) THEN s
    ELSE
    LET near == IF ind < 0 THEN 0
                ELSE IF ind >= Len(s.items) THEN Len(s.items) - 1 ELSE ind
    IN
    Bind(IF 0 <= near /\ near < Len(s.items)
         THEN Bind(SetCurrentIndex(s, near), LAMBDA a : LoadCatalogRow(a, near))
         ELSE s, LAMBDA s1 :
    IF Halted(s1) THEN s1
    ELSE [s1 EXCEPT !.prevDisabled = (ind <= 0),
                    !.nextDisabled = (ind >= Len(s1.items) - 1)])

\* _set_navigation(index)
SetNavigation(s, ind) ==
    IF Halted(s) THEN s
    ELSE
    Bind(IF 0 <= ind /\ ind < Len(s.items)
         THEN Bind(SetCurrentIndex(s, ind), LAMBDA a : LoadCatalogRow(a, ind))
         ELSE s, LAMBDA s1 :
    IF Halted(s1) THEN s1
    ELSE [s1 EXCEPT !.prevDisabled = (ind <= 0),
                    !.nextDisabled = (ind >= Len(s1.items) - 1)])

\* QComboBox.clear(): the current index becomes -1, signalled when it was valid
ComboClear(s) ==
    IF Halted(s) THEN s
    ELSE Bind([s EXCEPT !.items = <<>>], LAMBDA s1 :
         IF s.index = -1 THEN s1 ELSE SetCurrentIndex(s1, -1))

\* QComboBox.addItems(): filling an empty box makes item 0 current
ComboAddItems(s, texts) ==
    IF Halted(s) THEN s
    ELSE Bind([s EXCEPT !.items = @ \o texts], LAMBDA s1 :
         IF s.items = <<>> /\ texts # <<>> /\ s.index = -1
         THEN SetCurrentIndex(s1, 0) ELSE s1)

\* variant of _update_navigation that does not clear the combo box first
UpdateNavigationNoClear(s) ==
    IF Halted(s) THEN s
    ELSE ComboAddItems(s, s.catalog[1].cols["id"])

\* _update_navigation()
UpdateNavigation(s) ==
    IF Halted(s) THEN s
    ELSE Bind(ComboClear(s), LAMBDA a : ComboAddItems(a, s.catalog[1].cols["id"]))

\* variant of the column extraction that does not apply the subset's mask
UnpackColumnUnmasked(d, att, mask) ==
    LET component == HostComponent(d, att)
        values == component.values
    IN  IF component.categorical /\ att \in ProductColumns
        THEN LET path == DirName(component.load_path)
             IN  [i \in DOMAIN values |-> PathJoin(path, values[i])]
        ELSE values

\* the column _unpack_selection stores for one component of the host data
UnpackColumn(d, att, mask) ==
    LET component == HostComponent(d, att)
        picked == NpIndex(component.values, mask)
        values == IF picked.ndim > 1 THEN picked.val[1] ELSE picked.val
    IN  IF component.categorical /\ att \in ProductColumns
        THEN LET path == DirName(component.load_path)
             IN  [i \in DOMAIN values |-> PathJoin(path, values[i])]
        ELSE values

RECURSIVE UnpackColumns(_, _, _, _)
UnpackColumns(t, d, names, mask) ==
    IF names = <<>> THEN t
    ELSE UnpackColumns(SetColumn(t, Head(names), UnpackColumn(d, Head(names), mask)),
                       d, Tail(names), mask)

\* the table _unpack_selection builds from the host data and the mask
BuildCatalog(d, mask) ==
    UnpackColumns(EmptyTable(HostData(d).meta), d, HostData(d).components, mask)

\* variant of _unpack_selection without the test for an empty mask
UnpackSelectionNoEmptyTest(s, in) ==
    IF Halted(s) THEN s
    ELSE IF in.kind = "subset" /\ ~in.compatible THEN s
    ELSE LET mask == IF in.kind = "subset" THEN in.mask ELSE None
         IN  Bind([s EXCEPT !.catalog = Some(BuildCatalog(in.data, mask))], LAMBDA s1 :
             Bind(UpdateNavigation(s1), LAMBDA s2 :
             Bind(SetNavigation(s2, 0), LAMBDA s3 :
             LoadCatalogRow(s3, 0))))

\* _unpack_selection(data)
UnpackSelection(s, in) ==
    IF Halted(s) THEN s
    ELSE IF in.kind = "subset" /\ ~in.compatible THEN s
    ELSE IF in.kind = "subset" /\ ~NpAny(in.mask) THEN s
    ELSE LET mask == IF in.kind = "subset" THEN in.mask ELSE None
         IN  Bind([s EXCEPT !.catalog = Some(BuildCatalog(in.data, mask))], LAMBDA s1 :
             Bind(UpdateNavigation(s1), LAMBDA s2 :
             Bind(SetNavigation(s2, 0), LAMBDA s3 :
             LoadCatalogRow(s3, 0))))

\* DataCollection.remove(data)
RemoveData(collection, obj) == SelectSeq(collection, LAMBDA x : x # obj)

RECURSIVE RemoveAll(_, _)
RemoveAll(collection, objs) ==
    IF objs = {} THEN collection
    ELSE LET o == CHOOSE x \in objs : TRUE
         IN  RemoveAll(RemoveData(collection, o), objs \ {o})

\* variant of closeEvent that empties the host's collection
CloseViewerClearsCollection(s) ==
    [s EXCEPT !.dataCollection = <<>>]

\* closeEvent(event)
CloseViewer(s) ==
    [s EXCEPT !.dataCollection = RemoveAll(@, {s.loaded[k] : k \in DOMAIN s.loaded})]

(***************************************************************************)
(* Initial state: the viewer as __init__ and the toolbar's constructor     *)
(* leave it, inside a host whose collection holds the two tables.          *)
(***************************************************************************)
HostObjects ==
    [i \in 1..2 |-> LoaderValue("host table", <<"dir_" \o (IF i = 1 THEN "A" ELSE "B")>>)]

AllPaths ==
    UNION {{BuildCatalog(d, None).cols[c][k] : k \in 1..NumRows(d), c \in ProductColumns}
           : d \in Datasets}

\* the files that cannot be read: none, or any one of them
Faults == {{}} \cup {{p} : p \in AllPaths}

NoEvent ==
    [op |-> "init", arg |-> <<>>, loads |-> <<>>, loaderCalls |-> <<>>,
     raised |-> FALSE, slotRaised |-> FALSE, shrunk |-> FALSE]

InitViewer ==
    /\ items = <<>>
    /\ index = -1
    /\ current_row = None
    /\ prevDisabled = FALSE
    /\ nextDisabled = FALSE
    /\ loaded = EmptyMap
    /\ objects = HostObjects
    /\ dataCollection = [i \in 1..Len(HostObjects) |-> i]
    /\ rendered = None
    /\ resolved = None
    /\ dead = FALSE
    /\ lastEvent = NoEvent

Init ==
    /\ InitViewer
    /\ catalog = None
    /\ registry = Append(BuiltinRegistry,
                         [label |-> "Custom Reader", function |-> "custom_reader"])
    /\ broken \in Faults

\* the handler has returned: its effects become the viewer's state
Commit(t, op, arg) ==
    /\ Len(t.objects) <= Len(HostObjects) + MaxObjects
    /\ catalog' = t.catalog
    /\ items' = t.items
    /\ index' = t.index
    /\ current_row' = t.current_row
    /\ prevDisabled' = t.prevDisabled
    /\ nextDisabled' = t.nextDisabled
    /\ loaded' = t.loaded
    /\ objects' = t.objects
    /\ dataCollection' = t.dataCollection
    /\ rendered' = t.rendered
    /\ resolved' = t.resolved
    /\ dead' = (t.dead \/ (t.exc # "" /\ t.policy = "abort"))
    /\ lastEvent' = [op |-> op, arg |-> arg, loads |-> t.loads,
                     loaderCalls |-> t.loaderCalls,
                     raised |-> (t.exc # ""), slotRaised |-> t.slotRaised,
                     shrunk |-> (/\ catalog # None
                                 /\ t.catalog # catalog
                                 /\ TableLen(t.catalog[1]) < TableLen(catalog[1]))]
    /\ UNCHANGED <<registry, broken>>

\* the states a handler H may end in: one per policy when an exception left a slot
\* (inSlot: H itself runs as a slot), otherwise the policy plays no part
Outcomes(H(_), inSlot) ==
    Bind(H(State("log")), LAMBDA t :
        IF t.slotRaised \/ (inSlot /\ t.exc # "")
        THEN {t, H(State("abort"))} ELSE {t})

\* an exception leaving a handler the host called goes to the host, whatever the policy
ToCaller(t) == [t EXCEPT !.policy = "log"]

\* add_data(data): called by the host, an exception goes back to the caller
AddData ==
    /\ ~dead
    /\ \E d \in Datasets :
          LET in == [kind |-> "data", data |-> d, mask |-> <<>>, compatible |-> TRUE]
          IN  \E t \in Outcomes(LAMBDA s : UnpackSelection(s, in), FALSE) :
                 Commit(ToCaller(t), "unpack", in)

\* add_subset(subset) and the hub's _add_subset, _update_subset, _remove_subset
SubsetMessage ==
    /\ ~dead
    /\ \E in \in Inputs :
          /\ in.kind = "subset"
          /\ \E t \in Outcomes(LAMBDA s : UnpackSelection(s, in), FALSE) :
                Commit(ToCaller(t), "unpack", in)

\* _set_navigation(index) called directly, with any integer
JumpRange == (0 - 1)..MaxRows

Jump ==
    /\ ~dead
    /\ \E i \in JumpRange :
          \E t \in Outcomes(LAMBDA s : SetNavigation(s, i), FALSE) :
             Commit(ToCaller(t), "set_navigation", i)

\* cycle_next_action.triggered: a slot, reachable while the action is enabled
CycleNext ==
    /\ ~dead
    /\ ~nextDisabled
    /\ \E t \in Outcomes(LAMBDA s : SetNavigation(s, index + 1), TRUE) :
          Commit(t, "next", index + 1)

\* cycle_previous_action.triggered
CyclePrevious ==
    /\ ~dead
    /\ ~prevDisabled
    /\ \E t \in Outcomes(LAMBDA s : SetNavigation(s, index - 1), TRUE) :
          Commit(t, "previous", index - 1)

\* the user picks an item of source_select
SelectSource ==
    /\ ~dead
    /\ \E i \in 0..(Len(items) - 1) :
          \E t \in Outcomes(LAMBDA s : SetCurrentIndex(s, i), TRUE) :
             Commit(t, "select", i)

\* closeEvent(event)
Close ==
    /\ ~dead
    /\ \E t \in Outcomes(LAMBDA s : CloseViewer(s), FALSE) : Commit(t, "close", <<>>)

Next ==
    \/ AddData
    \/ SubsetMessage
    \/ Jump
    \/ CycleNext
    \/ CyclePrevious
    \/ SelectSource
    \/ Close

Spec == Init /\ [][Next]_vars

(***************************************************************************)
(* _get_loaders on its own, over every metadata and registry in the bounds.*)
(***************************************************************************)
InitLoaders ==
    /\ InitViewer
    /\ \E m \in Metas :
          catalog = Some([BuildCatalog("A", None) EXCEPT !.meta = m])
    /\ registry \in Registries
    /\ broken = {}

\* spectrum1d_loader, spectrum2d_loader, cutout_loader = self._get_loaders()
ResolveLoaders ==
    /\ lastEvent.op = "init"
    /\ LET gl == GetLoaders(catalog[1].meta, registry)
       IN  /\ resolved' = IF gl.exc = "" THEN Some(gl.loaders) ELSE resolved
           /\ lastEvent' = [NoEvent EXCEPT !.op = "get_loaders", !.raised = (gl.exc # "")]
    /\ UNCHANGED <<catalog, items, index, current_row, prevDisabled, nextDisabled,
                   loaded, objects, dataCollection, rendered, registry, broken, dead>>

NextLoaders == ResolveLoaders

SpecLoaders == InitLoaders /\ [][NextLoaders]_vars

(***************************************************************************)
(* Properties.                                                             *)
(***************************************************************************)
NumItems == Len(items)

Range(seq) == {seq[i] : i \in DOMAIN seq}

AllLoadsOk(e) == \A i \in DOMAIN e.loads : e.loads[i][2]

AllLoadsFailed(e) == e.loads # <<>> /\ \A i \in DOMAIN e.loads : ~e.loads[i][2]

\* the event ran to its end: no exception left the handler or a slot
Clean(e) == ~e.raised /\ ~e.slotRaised /\ AllLoadsOk(e)

\* the products the widgets show are those of the given catalog row
Shows(row) ==
    /\ rendered # None
    /\ rendered[1].row = row
    /\ rendered[1].spec1d.path = row["spectrum1d"]
    /\ rendered[1].spec2d.path = row["spectrum2d"]
    /\ rendered[1].image.path = row["cutout"]

\* the last three loader calls of the event read the given row's three files
LoadedLast(e, row) ==
    LET n == Len(e.loaderCalls)
    IN  /\ n >= 3
        /\ e.loaderCalls[n - 2][2] = row["spectrum1d"]
        /\ e.loaderCalls[n - 1][2] = row["spectrum2d"]
        /\ e.loaderCalls[n][2] = row["cutout"]

\* C1: after _set_navigation and successful _unpack_selection calls on a catalog
\* of N rows, previous is disabled iff the current index is 0 and next is
\* disabled iff the current index is N-1 (or N = 0).
C1_ButtonsFollowIndex ==
    (/\ lastEvent.op \in {"set_navigation", "unpack"}
     /\ broken = {}
     /\ ~dead
     /\ catalog # None)
    => /\ prevDisabled <=> (index = 0)
       /\ nextDisabled <=> (index = NumItems - 1 \/ NumItems = 0)

\* C2: once _set_navigation(i) with 0 <= i < N has been handled and no loader
\* failed, the selector is at i, current_row is catalog row i, and the products
\* last loaded and rendered are those of row i.
C2_InRangeJumpShowsRow ==
    (/\ lastEvent.op = "set_navigation"
     /\ 0 <= lastEvent.arg /\ lastEvent.arg < NumItems
     /\ Clean(lastEvent)
     /\ ~dead)
    => LET row == TableRow(catalog[1], lastEvent.arg)
       IN  /\ index = lastEvent.arg
           /\ current_row = Some(row)
           /\ row["id"] = items[lastEvent.arg + 1]
           /\ LoadedLast(lastEvent, row)
           /\ Shows(row)

\* a jump to the last row of the three-row table, from another row
C2_Witness ==
    /\ lastEvent.op = "set_navigation"
    /\ lastEvent.arg = 2
    /\ Clean(lastEvent)
    /\ NumItems = 3
    /\ index = 2
    /\ Len(lastEvent.loads) = 3
    /\ Shows(TableRow(catalog[1], 2))

\* C3: _set_navigation(index) with index < 0 or index >= N invokes no loader and
\* changes nothing but the enabled state of the previous and next actions.
C3_OutOfRangeJumpFrame ==
    [][(/\ lastEvent'.op = "set_navigation"
        /\ (lastEvent'.arg < 0 \/ lastEvent'.arg >= NumItems))
       => /\ lastEvent'.loaderCalls = <<>>
          /\ lastEvent'.loads = <<>>
          /\ UNCHANGED <<catalog, items, index, current_row, loaded, objects,
                         dataCollection, rendered>>]_vars

\* a jump past the end of a three-row catalog shown at row 0: only the actions changed
C3_Witness ==
    /\ lastEvent.op = "set_navigation"
    /\ lastEvent.arg = 3
    /\ NumItems = 3
    /\ index = 0
    /\ Shows(TableRow(catalog[1], 0))
    /\ ~prevDisabled
    /\ nextDisabled

\* the functions registered under a label
RegisteredAs(label) ==
    {registry[i].function : i \in {j \in DOMAIN registry : registry[j].label = label}}

AbortedUnpack(e) ==
    /\ e.op = "unpack"
    /\ e.arg.kind = "subset"
    /\ (~e.arg.compatible \/ \A i \in DOMAIN e.arg.mask : ~e.arg.mask[i])

\* C5: _unpack_selection given a subset whose mask is all false, or whose
\* to_mask() raises IncompatibleAttribute, changes nothing and invokes no loader.
C5_AbortedUnpackFrame ==
    [][AbortedUnpack(lastEvent')
       => /\ lastEvent'.loaderCalls = <<>>
          /\ lastEvent'.loads = <<>>
          /\ ~lastEvent'.raised
          /\ UNCHANGED <<catalog, items, index, current_row, prevDisabled,
                         nextDisabled, loaded, objects, dataCollection, rendered>>]_vars

\* an all-false subset arrives while row 1 of the three-row catalog is shown
C5_Witness ==
    /\ AbortedUnpack(lastEvent)
    /\ lastEvent.arg.compatible
    /\ NumItems = 3
    /\ index = 1
    /\ Shows(TableRow(catalog[1], 1))
    /\ DOMAIN loaded = KindSet

CachedObjects == {loaded[k] : k \in DOMAIN loaded}

\* C6: closeEvent removes from the host's collection exactly the cached objects:
\* every cached object is gone, every other object is still there.
C6_CloseRemovesCached ==
    [][lastEvent'.op = "close"
       => /\ Range(dataCollection') = Range(dataCollection) \ CachedObjects
          /\ dataCollection' = SelectSeq(dataCollection, LAMBDA x : x \notin CachedObjects)
          /\ \A i \in DOMAIN HostObjects : i \in Range(dataCollection')
          /\ UNCHANGED <<loaded, objects>>]_vars

\* closed after three products were loaded and several rows shown: the host's
\* two tables are what is left
C6_Witness ==
    /\ lastEvent.op = "close"
    /\ DOMAIN loaded = KindSet
    /\ Cardinality(CachedObjects) = 3
    /\ dataCollection = <<1, 2>>
    /\ index = 2

\* the rows of table d an input selects, in table order
SelectedRows(in) ==
    LET S == IF in.kind = "data" THEN 1..NumRows(in.data)
             ELSE {k \in 1..NumRows(in.data) : in.mask[k]}
    IN  CHOOSE f \in [1..Cardinality(S) -> S] : \A i, j \in 1..Cardinality(S) : i < j => f[i] < f[j]

\* the catalog an input stands for: one row per selected row of the host table
ExpectedCatalog(in) ==
    LET rows == SelectedRows(in)
        d == in.data
    IN  [meta |-> MetaOf(d),
         colnames |-> <<"id", "spectrum1d", "spectrum2d", "cutout", "slit_width">>,
         cols |-> [att \in {"id", "spectrum1d", "spectrum2d", "cutout", "slit_width"} |->
                     [i \in DOMAIN rows |->
                        CASE att = "id" -> <<"id", d, rows[i]>>
                          [] att = "slit_width" -> <<rows[i]>>
                          [] OTHER -> <<"dir_" \o d, <<att, d, rows[i]>>>>]]]

ExpectedIds(in) == [i \in DOMAIN SelectedRows(in) |-> <<"id", in.data, SelectedRows(in)[i]>>]

\* the input is the data object itself, or a subset whose mask is all true
Whole(in) ==
    \/ in.kind = "data"
    \/ in.kind = "subset" /\ in.compatible /\ \A k \in DOMAIN in.mask : in.mask[k]

WholeInput(d) == [kind |-> "data", data |-> d, mask |-> <<>>, compatible |-> TRUE]

\* C7: unpacking the same host data twice in a row with an all-true mask gives the
\* same catalog and selector items as the first time, nothing accumulated, and
\* the catalog is the one unpacking the unmasked data object gives.
C7_UnpackIdempotent ==
    [][(/\ lastEvent'.op = "unpack"
        /\ Whole(lastEvent'.arg)
        /\ ~dead')
       => /\ catalog' = Some(ExpectedCatalog(WholeInput(lastEvent'.arg.data)))
          /\ items' = ExpectedIds(WholeInput(lastEvent'.arg.data))
          /\ (/\ lastEvent.op = "unpack"
              /\ Whole(lastEvent.arg)
              /\ lastEvent.arg.data = lastEvent'.arg.data)
             => (catalog' = catalog /\ items' = items)]_vars

\* the all-true subset of table A unpacked while a three-row catalog was shown
C7_Witness ==
    /\ lastEvent.op = "unpack"
    /\ lastEvent.arg.kind = "subset"
    /\ lastEvent.arg.data = "A"
    /\ Whole(lastEvent.arg)
    /\ Clean(lastEvent)
    /\ Len(lastEvent.loads) = 5
    /\ lastEvent.loads[1][1] = <<"id", "A", MaxRows>>
    /\ NumItems = MaxRows
    /\ catalog = Some(ExpectedCatalog(WholeInput("A")))

\* C8: when a loader fails during load_selection the failure is not caught and
\* the pipeline stops there: the cache, the host's collection and what the
\* widgets show stay as they were.
C8_FailedLoadFrame ==
    [][AllLoadsFailed(lastEvent')
       => /\ UNCHANGED <<loaded, objects, dataCollection, rendered>>
          /\ (lastEvent'.raised \/ lastEvent'.slotRaised)
          /\ lastEvent'.loaderCalls[Len(lastEvent'.loaderCalls)][2] \in broken
          /\ (lastEvent'.op = "set_navigation" => (lastEvent'.raised \/ dead'))]_vars

\* a jump to a row whose file cannot be read while another row is shown
C8_Witness ==
    /\ lastEvent.op = "set_navigation"
    /\ AllLoadsFailed(lastEvent)
    /\ lastEvent.raised
    /\ rendered # None
    /\ current_row # None
    /\ current_row[1] # rendered[1].row
    /\ DOMAIN loaded = KindSet
    /\ \E p \in broken : p[2][1] = "spectrum2d"

\* C9: for each kind the cached object is the one registered on the first load
\* and never changes identity; the first load appends it to the host's
\* collection, later loads overwrite its values in place and append nothing, so
\* the viewer adds at most one object per kind.
C9_CacheIdentity ==
    [][LET fresh == DOMAIN loaded' \ DOMAIN loaded
       IN  /\ \A k \in DOMAIN loaded : k \in DOMAIN loaded' /\ loaded'[k] = loaded[k]
           /\ \A k \in fresh : loaded'[k] \notin Range(dataCollection)
           /\ Range(dataCollection') \ Range(dataCollection) = {loaded'[k] : k \in fresh}
           /\ Len(dataCollection') <= Len(dataCollection) + Cardinality(fresh)
           /\ Len(objects') - Len(HostObjects) = Cardinality(DOMAIN loaded')
           /\ Cardinality({loaded'[k] : k \in DOMAIN loaded'}) = Cardinality(DOMAIN loaded')
           /\ DOMAIN loaded' \subseteq KindSet
           /\ (lastEvent'.loads # <<>> /\ Clean(lastEvent'))
              => \A k \in DOMAIN loaded' : objects'[loaded'[k]] = rendered'[1][k]]_vars

\* a later load: the three objects registered by the first load now hold row 1
C9_Witness ==
    /\ lastEvent.op = "next"
    /\ Clean(lastEvent)
    /\ index = 1
    /\ NumItems = 3
    /\ loaded = [k \in KindSet |-> CASE k = "spec1d" -> 3 [] k = "spec2d" -> 4 [] OTHER -> 5]
    /\ dataCollection = <<1, 2, 3, 4, 5>>
    /\ Len(objects) = 5
    /\ objects[3].path = TableRow(catalog[1], 1)["spectrum1d"]
    /\ objects[5].path = TableRow(catalog[1], 1)["cutout"]

\* the input makes _unpack_selection rebuild the catalog
Selecting(in) ==
    \/ in.kind = "data"
    \/ in.kind = "subset" /\ in.compatible /\ \E k \in DOMAIN in.mask : in.mask[k]

\* C10: after a successful _unpack_selection the catalog is exactly the selected
\* rows of the new input, the selector lists the new catalog's ids in order,
\* the current index is 0 and row 0 is the row loaded and rendered.
C10_UnpackShowsRowZero ==
    (/\ lastEvent.op = "unpack"
     /\ Selecting(lastEvent.arg)
     /\ ~lastEvent.raised
     /\ ~dead)
    => LET expected == ExpectedCatalog(lastEvent.arg)
           row == [c \in DOMAIN expected.cols |-> expected.cols[c][1]]
       IN  /\ catalog = Some(expected)
           /\ items = ExpectedIds(lastEvent.arg)
           /\ index = 0
           /\ current_row = Some(row)
           /\ LoadedLast(lastEvent, row)
           /\ Shows(row)

\* rows 2 and 3 of table A selected while another catalog was shown
C10_Witness ==
    /\ lastEvent.op = "unpack"
    /\ lastEvent.arg.kind = "subset"
    /\ lastEvent.arg.data = "A"
    /\ lastEvent.arg.compatible
    /\ lastEvent.arg.mask = [k \in 1..MaxRows |-> k > 1]
    /\ Clean(lastEvent)
    /\ Len(lastEvent.loads) = 5
    /\ lastEvent.loads[1][1] = <<"id", "A", MaxRows>>
    /\ index = 0
    /\ items[1] = <<"id", "A", 2>>
    /\ Shows(TableRow(catalog[1], 0))

====
